---------------------------- MODULE Spec2Model ----------------------------
(***************************************************************************)
(* A model of hexagonal_softbodies (src/src/main.rs): the flood-fill       *)
(* painter, the hexagonal lattice builder and the particle/tether physics  *)
(* step.                                                                   *)
(*                                                                         *)
(* Four specifications share this module:                                  *)
(*   FillSpec  flood_fill on small bitmaps, one loop iteration per step;   *)
(*   FillLiveSpec  FillSpec with the loop run to completion (fairness);    *)
(*   Spec      create_particle_lattice, the clear request and the mode     *)
(*             switch, one scanned grid slot per step;                     *)
(*   PhysSpec  one frame of handle_sim_logic (point forces, then           *)
(*             update_physics) on a two-particle mesh, in exact rational   *)
(*             arithmetic.                                                 *)
(* Each specification keeps the variables of the others at their           *)
(* initial values.                                                         *)
(***************************************************************************)
EXTENDS Integers, Sequences, FiniteSets, TLC

VARIABLES
    \* ---- flood fill (FillSpec)
    create_canvas,          \* the RGBA image: [width, height, pixels]
    start_pos,              \* flood_fill's start_pos argument
    fill_color,             \* flood_fill's fill_color argument
    start_color,            \* flood_fill's local start_color
    frontier,               \* flood_fill's explicit stack
    fill_pc,                \* "idle", "loop" (inside the while), "returned"
    canvas_at_call,         \* the image as it was when flood_fill was called
    \* ---- lattice builder and main loop (Spec)
    current_mode,           \* main's current_mode: "Create" or "Sim"
    count_x,                \* create_particle_lattice's count_x
    count_y,                \* create_particle_lattice's count_y
    hex_points,             \* its hex_points: slot -> None or the centre
    hex_particles_indices,  \* its hex_particles_indices: slot -> None or [0..5 -> index]
    created_tethers,        \* its created_tethers deque
    scan_i,                 \* the index i of the for_each in progress
    pc,                     \* "idle", "place", "tether", "unwrap_panic", "tether_panic"
    particles,              \* physics_objects.0
    tethers,                \* physics_objects.1
    stepped,                \* update_physics has run on the present mesh
    \* ---- one frame of the simulation (PhysSpec)
    phys_pc,                \* "left", "right", "particles", "tethers", "done"
    mouse_x,                \* mouse_position().0 (the pointer is on the x axis)
    left_down,              \* is_mouse_button_down(MouseButton::Left)
    right_down,             \* is_mouse_button_down(MouseButton::Right)
    force_radius,           \* game_state.force_radius
    dt,                     \* get_frame_time()
    prev_particles,         \* physics_objects.0 before the last step taken
    integrated,             \* particles updated so far by this update_physics
    accumulated             \* tethers updated so far by this update_physics

fill_vars == <<create_canvas, start_pos, fill_color, start_color, frontier,
               fill_pc, canvas_at_call>>

lattice_vars == <<current_mode, count_x, count_y, hex_points,
                  hex_particles_indices, created_tethers, scan_i, pc,
                  particles, tethers, stepped>>

phys_vars == <<phys_pc, mouse_x, left_down, right_down, force_radius, dt,
               prev_particles, integrated, accumulated>>

vars == <<fill_vars, lattice_vars, phys_vars>>

\* ------------------------------------------------------------------------
\* Bounds of the model
\* ------------------------------------------------------------------------

\* Bitmaps have at most this many pixels (width * height).
MaxPixels == 6

\* Hexagon grids have at most this many slots (count_x * count_y).
MaxSlots == 8

\* In PhysSpec the particles and the pointer start at 0 .. MaxPos on the x axis.
MaxPos == 3

\* In PhysSpec a tether's stiffness is 1 .. MaxStiffness.
MaxStiffness == 2

\* In PhysSpec a tether's rest length is 1 .. MaxRestLength.
MaxRestLength == 3

\* In PhysSpec the force tool's radius is 1 .. MaxForceRadius.
MaxForceRadius == 1

\* ------------------------------------------------------------------------
\* The values the variables of a specification hold while another runs
\* ------------------------------------------------------------------------

\* Option::None
None == << >>

\* The main loop before any lattice was computed (main.rs 756-761).
LatticeIdle ==
    /\ current_mode = "Create"
    /\ count_x = 1
    /\ count_y = 1
    /\ hex_points = [s \in 0 .. 0 |-> None]
    /\ hex_particles_indices = [s \in 0 .. 0 |-> None]
    /\ created_tethers = << >>
    /\ scan_i = 0
    /\ pc = "idle"
    /\ particles = << >>
    /\ tethers = << >>
    /\ stepped = FALSE

\* No frame of the simulation is in progress.
PhysIdle ==
    /\ phys_pc = "done"
    /\ mouse_x = 0
    /\ left_down = FALSE
    /\ right_down = FALSE
    /\ force_radius = 1
    /\ dt = 0
    /\ prev_particles = << >>
    /\ integrated = 0
    /\ accumulated = 0

\* ------------------------------------------------------------------------
\* Bitmap painter: flood_fill (main.rs 257-301)
\* ------------------------------------------------------------------------

\* Rgba<u8> values. Three distinct pixel values stand for the 2^32 colours:
\* the transparent pixel of a cleared canvas, DRAW_COLOR, and one other.
Transparent == "rgba(0,0,0,0)"
DRAW_COLOR == "rgba(88,96,117,255)"
OtherColor == "rgba(1,2,3,255)"
Colors == {Transparent, DRAW_COLOR, OtherColor}

\* The coordinates of a width x height image.
Coords(w, h) == (0 .. w - 1) \X (0 .. h - 1)

\* The sizes of the bounded images.
Sizes ==
    { wh \in (1 .. MaxPixels) \X (1 .. MaxPixels) : wh[1] * wh[2] <= MaxPixels }

\* Every image of the bounded sizes.
BoundedCanvases ==
    UNION { [width : {wh[1]}, height : {wh[2]},
             pixels : [Coords(wh[1], wh[2]) -> Colors]] : wh \in Sizes }

\* create_canvas.get_pixel(x, y)
get_pixel(canvas, x, y) == canvas.pixels[<<x, y>>]

\* create_canvas.draw_pixel(x, y, color)
draw_pixel(canvas, x, y, color) ==
    [canvas EXCEPT !.pixels[<<x, y>>] = color]

\* The mutant of Branch: the upward neighbour is never explored.
Branch_no_up(x, y, w, h) ==
    (IF x + 1 < w THEN << <<x + 1, y>> >> ELSE << >>)
    \o (IF x > 0 THEN << <<x - 1, y>> >> ELSE << >>)
    \o (IF y + 1 < h THEN << <<x, y + 1>> >> ELSE << >>)

\* The mutant of Branch: the right-hand neighbour is pushed without the
\* test against the width.
Branch_unchecked_right(x, y, w, h) ==
    << <<x + 1, y>> >>
    \o (IF x > 0 THEN << <<x - 1, y>> >> ELSE << >>)
    \o (IF y + 1 < h THEN << <<x, y + 1>> >> ELSE << >>)
    \o (IF y > 0 THEN << <<x, y - 1>> >> ELSE << >>)

\* The coordinates one iteration pushes, in push order (main.rs 288-299).
Branch(x, y, w, h) ==
    (IF x + 1 < w THEN << <<x + 1, y>> >> ELSE << >>)
    \o (IF x > 0 THEN << <<x - 1, y>> >> ELSE << >>)
    \o (IF y + 1 < h THEN << <<x, y + 1>> >> ELSE << >>)
    \o (IF y > 0 THEN << <<x, y - 1>> >> ELSE << >>)

\* The mutant of PreventLoop: the early return is never taken.
PreventLoop_never(sc, fc) == FALSE

\* "Prevent infinite loops": the early return's condition (main.rs 267-269).
PreventLoop(sc, fc) == sc = fc

\* flood_fill is entered: lines 262-271. The F key calls it with DRAW_COLOR
\* (main.rs 337-343); the function itself takes any colour.
FloodFillCall(pos, color) ==
    /\ fill_pc \in {"idle", "returned"}
    /\ pos \in Coords(create_canvas.width, create_canvas.height)
    /\ start_pos' = pos
    /\ fill_color' = color
    /\ start_color' = get_pixel(create_canvas, pos[1], pos[2])
    /\ canvas_at_call' = create_canvas
    /\ IF PreventLoop(get_pixel(create_canvas, pos[1], pos[2]), color)
         THEN /\ frontier' = << >>
              /\ fill_pc' = "returned"
         ELSE /\ frontier' = << pos >>
              /\ fill_pc' = "loop"
    /\ UNCHANGED create_canvas

\* One iteration of the while loop: lines 275-299.
FloodFillIterate ==
    /\ fill_pc = "loop"
    /\ frontier # << >>
    /\ LET top == frontier[Len(frontier)]
           x == top[1]
           y == top[2]
           popped == SubSeq(frontier, 1, Len(frontier) - 1)
           this_color == get_pixel(create_canvas, x, y)
       IN IF this_color # start_color
            THEN /\ frontier' = popped
                 /\ UNCHANGED create_canvas
            ELSE /\ create_canvas' = draw_pixel(create_canvas, x, y, fill_color)
                 /\ frontier' = popped \o Branch(x, y, create_canvas.width,
                                                 create_canvas.height)
    /\ UNCHANGED <<start_pos, fill_color, start_color, fill_pc, canvas_at_call>>

\* The loop condition fails and flood_fill returns: line 274, 301.
FloodFillReturn ==
    /\ fill_pc = "loop"
    /\ frontier = << >>
    /\ fill_pc' = "returned"
    /\ UNCHANGED <<create_canvas, start_pos, fill_color, start_color, frontier,
                   canvas_at_call>>

FillInit ==
    /\ create_canvas \in BoundedCanvases
    /\ start_pos = <<0, 0>>
    /\ fill_color = Transparent
    /\ start_color = Transparent
    /\ frontier = << >>
    /\ fill_pc = "idle"
    /\ canvas_at_call = create_canvas
    /\ LatticeIdle
    /\ PhysIdle

FillNext ==
    \/ \E pos \in Coords(MaxPixels, MaxPixels), color \in Colors :
           FloodFillCall(pos, color) /\ UNCHANGED <<lattice_vars, phys_vars>>
    \/ FloodFillIterate /\ UNCHANGED <<lattice_vars, phys_vars>>
    \/ FloodFillReturn /\ UNCHANGED <<lattice_vars, phys_vars>>

FillSpec == FillInit /\ [][FillNext]_vars

\* flood_fill is a plain sequential loop with nothing to wait for (main.rs
\* 274-300): once entered, its next iteration, and its return when the loop
\* condition fails, are eventually taken. Nothing obliges the user to call it.
FillLiveSpec ==
    /\ FillInit
    /\ [][FillNext]_vars
    /\ WF_vars(FloodFillIterate /\ UNCHANGED <<lattice_vars, phys_vars>>)
    /\ WF_vars(FloodFillReturn /\ UNCHANGED <<lattice_vars, phys_vars>>)

\* ------------------------------------------------------------------------
\* Claims about flood_fill (checked under FillSpec)
\* ------------------------------------------------------------------------

\* Two pixels are 4-neighbours: they differ by one in exactly one coordinate.
Adjacent4(p, q) ==
    \/ (p[2] = q[2] /\ (p[1] = q[1] + 1 \/ q[1] = p[1] + 1))
    \/ (p[1] = q[1] /\ (p[2] = q[2] + 1 \/ q[2] = p[2] + 1))

\* Two pixels touch only at a corner.
Diagonal(p, q) ==
    /\ (p[1] = q[1] + 1 \/ q[1] = p[1] + 1)
    /\ (p[2] = q[2] + 1 \/ q[2] = p[2] + 1)

RECURSIVE GrowRegion(_, _)
GrowRegion(same, S) ==
    LET T == S \cup { q \in same : \E p \in S : Adjacent4(p, q) }
    IN IF T = S THEN S ELSE GrowRegion(same, T)

\* The 4-connected region of pixels of pos's colour that contains pos.
Region(canvas, pos) ==
    GrowRegion({ p \in DOMAIN canvas.pixels :
                     canvas.pixels[p] = canvas.pixels[pos] }, {pos})

\* C1: when flood_fill(start, fill_color) returns and fill_color differed
\* from the colour at start, a pixel has changed iff it lies in the
\* 4-connected region of the start colour around start; every pixel of the
\* region equals fill_color and every other pixel keeps its value.
C1_FillsExactlyTheRegion ==
    (fill_pc = "returned" /\ fill_color # start_color) =>
        LET R == Region(canvas_at_call, start_pos)
        IN \A p \in DOMAIN create_canvas.pixels :
               /\ (create_canvas.pixels[p] # canvas_at_call.pixels[p]) <=> (p \in R)
               /\ (p \in R) => (create_canvas.pixels[p] = fill_color)
               /\ (p \notin R) =>
                      (create_canvas.pixels[p] = canvas_at_call.pixels[p])

\* C1 witness: a fill has returned that recoloured a region of at least three
\* pixels, reached upwards from the start, while a pixel of the start colour
\* touching the region only diagonally was left alone.
C1_Witness ==
    /\ fill_pc = "returned"
    /\ fill_color # start_color
    /\ LET R == Region(canvas_at_call, start_pos)
       IN /\ Cardinality(R) >= 3
          /\ \E p \in R : p[2] < start_pos[2]
          /\ \E p \in R, q \in DOMAIN create_canvas.pixels :
                 /\ q \notin R
                 /\ Diagonal(p, q)
                 /\ canvas_at_call.pixels[q] = start_color
                 /\ create_canvas.pixels[q] = start_color
          /\ \A p \in R : create_canvas.pixels[p] = fill_color

\* C2: flood_fill called with the colour already at the start pixel returns
\* at once: no pixel is written and the loop is never entered.
C2_SameColorIsNoOp ==
    (fill_pc # "idle" /\ fill_color = start_color) =>
        /\ create_canvas = canvas_at_call
        /\ fill_pc = "returned"
        /\ frontier = << >>

\* C2 witness: such a call has returned, on an image whose start pixel has a
\* neighbour of the same colour and a neighbour of another colour.
C2_Witness ==
    /\ fill_pc = "returned"
    /\ fill_color = start_color
    /\ create_canvas = canvas_at_call
    /\ \E p, q \in DOMAIN create_canvas.pixels :
           /\ Adjacent4(p, start_pos)
           /\ Adjacent4(q, start_pos)
           /\ create_canvas.pixels[p] = start_color
           /\ create_canvas.pixels[q] # start_color

\* Every coordinate on the stack is inside the bitmap.
FrontierInBounds ==
    \A n \in 1 .. Len(frontier) :
        frontier[n] \in Coords(create_canvas.width, create_canvas.height)

\* A step changes a pixel only if the pixel still has the colour it had when
\* flood_fill was called, and changes it from start_color to fill_color:
\* within one call no pixel is recoloured twice.
RecolouredAtMostOnce ==
    \A p \in DOMAIN create_canvas.pixels :
        (create_canvas'.pixels[p] # create_canvas.pixels[p]) =>
            /\ create_canvas.pixels[p] = canvas_at_call.pixels[p]
            /\ create_canvas.pixels[p] = start_color
            /\ create_canvas'.pixels[p] = fill_color
            /\ fill_color # start_color

\* C14: for every bitmap, every in-bounds start and every fill colour, every
\* coordinate ever on the stack is inside the bitmap, each pixel is
\* recoloured at most once per call, and a flood_fill that has entered its
\* loop returns (with the stack empty).
C14_FloodFillTerminates ==
    /\ []FrontierInBounds
    /\ [][RecolouredAtMostOnce]_vars
    /\ (fill_pc = "loop") ~> (fill_pc = "returned" /\ frontier = << >>)

\* C14 witness: a call has returned after recolouring at least three pixels
\* of a region in which some pixel has two recoloured neighbours, so that it
\* was pushed on the stack more than once.
C14_Witness ==
    /\ fill_pc = "returned"
    /\ frontier = << >>
    /\ fill_color # start_color
    /\ \E p, q, r \in DOMAIN create_canvas.pixels :
           /\ q # r
           /\ Adjacent4(p, q)
           /\ Adjacent4(p, r)
           /\ \A z \in {p, q, r} :
                  /\ canvas_at_call.pixels[z] = start_color
                  /\ create_canvas.pixels[z] = fill_color

\* ------------------------------------------------------------------------
\* Lattice builder: create_particle_lattice (main.rs 425-637)
\*
\* Coordinates are exact: x is counted in units of hex_radius / 2 and y in
\* units of hex_radius * sin60, so that dx = 3 * hex_radius is 6, dy =
\* hex_radius * sqrt(3) / 2 is 1, the left pad of an odd row is 3, and the
\* six vertex offsets are (+-1, +-1) and (+-2, 0).
\* ------------------------------------------------------------------------

\* The out-of-range sentinel usize::MAX, outside every slot index.
usize_MAX == -1

\* The arguments of the call at main.rs 325.
stiffness == 10000
damping_constant == 0

\* The flood-fill variables while the lattice specification runs.
FillIdle ==
    /\ create_canvas = [width |-> 1, height |-> 1,
                        pixels |-> [c \in Coords(1, 1) |-> Transparent]]
    /\ start_pos = <<0, 0>>
    /\ fill_color = Transparent
    /\ start_color = Transparent
    /\ frontier = << >>
    /\ fill_pc = "idle"
    /\ canvas_at_call = create_canvas

\* The grid sizes of the bounded images (count_x, count_y; main.rs 435-436).
GridSizes ==
    { cc \in (1 .. MaxSlots) \X (1 .. MaxSlots) : cc[1] * cc[2] <= MaxSlots }

\* The slots of the grid: 0 .. count_x * count_y - 1.
Slots == 0 .. count_x * count_y - 1

\* The centre of the slot at (row_i, column_i): main.rs 443-446.
Centre(row_i, column_i) ==
    LET left_pad == 3 * (row_i % 2)
    IN <<left_pad + 6 * column_i, row_i>>

\* Particle::new(position, Vec2::ZERO, 1.): main.rs 649-658.
ParticleNew(position) ==
    [position |-> position, velocity |-> <<0, 0>>, acceleration |-> <<0, 0>>,
     mass |-> 1, net_force |-> <<0, 0>>]

\* The squared length of pos2 - pos1, in units of (hex_radius / 2)^2: a
\* length of hex_radius is 4.
LengthSq(pos1, pos2) ==
    (pos2[1] - pos1[1]) * (pos2[1] - pos1[1])
    + 3 * (pos2[2] - pos1[2]) * (pos2[2] - pos1[2])

\* Tether::new: main.rs 687-703. initial_dist is kept squared.
TetherNew(p1_index, p2_index, k, damping, particle_arr) ==
    [p1_index |-> p1_index, p2_index |-> p2_index, k |-> k,
     damping_constant |-> damping,
     initial_dist_sq |-> LengthSq(particle_arr[p1_index + 1].position,
                                  particle_arr[p2_index + 1].position)]

\* The row of slot i: ((i as f32) / (count_x as f32)).floor().
RowOf(i) == i \div count_x

\* Index of the hex to the top-left of hex i: main.rs 470-485.
left_hex_index(i) ==
    IF RowOf(i) % 2 = 0
      THEN (IF i >= count_x + 1 THEN i - (count_x + 1) ELSE usize_MAX)
      ELSE (IF i >= count_x THEN i - count_x ELSE usize_MAX)

\* Index of the hex to the top-right of hex i: main.rs 487-502.
right_hex_index(i) ==
    IF RowOf(i) % 2 = 0
      THEN (IF i >= count_x THEN i - count_x ELSE usize_MAX)
      ELSE (IF i >= count_x - 1 THEN i - (count_x - 1) ELSE usize_MAX)

\* Index of the hex to the top of hex i: main.rs 504-508.
top_hex_index(i) ==
    IF i >= 2 * count_x THEN i - 2 * count_x ELSE usize_MAX

\* is_left, is_right, is_top: main.rs 511-527.
is_hex(index) ==
    IF index # usize_MAX THEN hex_points[index] # None ELSE FALSE

\* physics_objects.0.len() - 1: the index of the particle just pushed.
LastIndex(particle_arr) == Len(particle_arr) - 1

\* Enter is pressed in create mode (main.rs 322-326): the mesh is cleared
\* and create_particle_lattice starts; the slots are filled from the pixels
\* at the candidate centres (main.rs 439-452), given here as `sampled`.
ComputeLattice(sampled) ==
    /\ pc = "idle"
    /\ current_mode = "Create"
    /\ particles' = << >>
    /\ tethers' = << >>
    /\ hex_points' =
           [s \in Slots |->
               IF sampled[s] = DRAW_COLOR
                 THEN Centre(s \div count_x, s % count_x)
                 ELSE None]
    /\ hex_particles_indices' = [s \in Slots |-> None]
    /\ created_tethers' = << >>
    /\ scan_i' = 0
    /\ pc' = "place"
    /\ stepped' = FALSE
    /\ UNCHANGED <<current_mode, count_x, count_y>>

\* One slot of the particle scan: main.rs 463-600.
PlaceHex ==
    /\ pc = "place"
    /\ LET i == scan_i
           last == (i + 1 = count_x * count_y)
       IN IF hex_points[i] = None
            THEN /\ UNCHANGED <<particles, hex_particles_indices>>
                 /\ pc' = IF last THEN "tether" ELSE "place"
                 /\ scan_i' = IF last THEN 0 ELSE i + 1
            ELSE
              LET x == hex_points[i][1]
                  y == hex_points[i][2]
                  l == left_hex_index(i)
                  r == right_hex_index(i)
                  t == top_hex_index(i)
                  is_left == is_hex(l)
                  is_right == is_hex(r)
                  is_top == is_hex(t)
                  \* main.rs 536-563: the particles placed here
                  ps0 == IF ~is_left /\ ~is_top
                           THEN Append(particles, ParticleNew(<<x - 1, y - 1>>))
                           ELSE particles
                  ps1 == IF ~is_right /\ ~is_top
                           THEN Append(ps0, ParticleNew(<<x + 1, y - 1>>))
                           ELSE ps0
                  ps5 == IF ~is_left
                           THEN Append(ps1, ParticleNew(<<x - 2, y>>))
                           ELSE ps1
                  ps2 == IF ~is_right
                           THEN Append(ps5, ParticleNew(<<x + 2, y>>))
                           ELSE ps5
                  placed == [k \in 0 .. 5 |->
                               CASE k = 0 /\ ~is_left /\ ~is_top -> LastIndex(ps0)
                                 [] k = 1 /\ ~is_right /\ ~is_top -> LastIndex(ps1)
                                 [] k = 5 /\ ~is_left -> LastIndex(ps5)
                                 [] k = 2 /\ ~is_right -> LastIndex(ps2)
                                 [] OTHER -> 0]
                  \* main.rs 566-583: an unwrap of a record not yet set panics
                  unset == \/ (is_left /\ hex_particles_indices[l] = None)
                           \/ (is_top /\ hex_particles_indices[t] = None)
                           \/ (is_right /\ hex_particles_indices[r] = None)
              IN IF unset
                   THEN /\ particles' = ps2
                        /\ pc' = "unwrap_panic"
                        /\ UNCHANGED <<hex_particles_indices, scan_i>>
                   ELSE
                     LET reused == [k \in 0 .. 5 |->
                               CASE k = 5 /\ is_left -> hex_particles_indices[l][3]
                                 [] k = 0 /\ is_left -> hex_particles_indices[l][2]
                                 [] k = 0 /\ is_top /\ ~is_left ->
                                        hex_particles_indices[t][4]
                                 [] k = 1 /\ is_top -> hex_particles_indices[t][3]
                                 [] k = 1 /\ is_right /\ ~is_top ->
                                        hex_particles_indices[r][5]
                                 [] k = 2 /\ is_right -> hex_particles_indices[r][4]
                                 [] OTHER -> placed[k]]
                         \* main.rs 586-596: bottom-left, then bottom-right
                         ps4 == Append(ps2, ParticleNew(<<x - 1, y + 1>>))
                         ps3 == Append(ps4, ParticleNew(<<x + 1, y + 1>>))
                         particle_indices ==
                             [reused EXCEPT ![4] = LastIndex(ps4),
                                            ![3] = LastIndex(ps3)]
                     IN /\ particles' = ps3
                        /\ hex_particles_indices' =
                               [hex_particles_indices EXCEPT ![i] = particle_indices]
                        /\ pc' = IF last THEN "tether" ELSE "place"
                        /\ scan_i' = IF last THEN 0 ELSE i + 1
    /\ UNCHANGED <<current_mode, count_x, count_y, hex_points, created_tethers,
                   tethers, stepped>>

\* VecDeque::contains on the ordered pair: main.rs 616-617.
Contains(deque, pair) == \E n \in 1 .. Len(deque) : deque[n] = pair

\* The mutant of TetherPair: the second index is taken from the same slot.
TetherPair_same_slot(particle_indices, hex_p_idx) ==
    <<particle_indices[hex_p_idx], particle_indices[hex_p_idx]>>

\* The pair of particle indices of one edge: main.rs 617, 620, 622-623.
TetherPair(particle_indices, hex_p_idx) ==
    <<particle_indices[hex_p_idx], particle_indices[hex_p_idx + 1]>>

\* The inner loop for hex_p_idx in from .. 4 (main.rs 615-629): the deque and
\* the tether collection after it, as <<created_tethers, tethers>>.
RECURSIVE CreateTethers(_, _, _, _)
CreateTethers(particle_indices, hex_p_idx, deque, tether_arr) ==
    IF hex_p_idx >= 5
      THEN <<deque, tether_arr>>
      ELSE
        LET pair == TetherPair(particle_indices, hex_p_idx)
        IN IF ~Contains(deque, pair)
             THEN CreateTethers(particle_indices, hex_p_idx + 1,
                      Append(deque, pair),
                      Append(tether_arr,
                             TetherNew(pair[1], pair[2], stiffness,
                                       damping_constant, particles)))
             ELSE CreateTethers(particle_indices, hex_p_idx + 1, deque,
                                tether_arr)

\* One slot of the tether scan: main.rs 607-636.
TetherHex ==
    /\ pc = "tether"
    /\ LET i == scan_i
           last == (i + 1 = count_x * count_y)
       IN /\ IF hex_particles_indices[i] = None
               THEN UNCHANGED <<created_tethers, tethers>>
               ELSE LET made == CreateTethers(hex_particles_indices[i], 0,
                                              created_tethers, tethers)
                    IN /\ tethers' = made[2]
                       /\ created_tethers' =
                              IF Len(made[1]) > 2 * count_x
                                THEN Tail(made[1])
                                ELSE made[1]
          /\ pc' = IF last THEN "idle" ELSE "tether"
          /\ scan_i' = IF last THEN 0 ELSE i + 1
    /\ UNCHANGED <<current_mode, count_x, count_y, hex_points,
                   hex_particles_indices, particles, stepped>>

\* Backspace is pressed in create mode: main.rs 346-354. The records of the
\* last build no longer describe the (empty) mesh and are dropped.
ClearRequest ==
    /\ pc = "idle"
    /\ current_mode = "Create"
    /\ particles' = << >>
    /\ tethers' = << >>
    /\ hex_points' = [s \in Slots |-> None]
    /\ hex_particles_indices' = [s \in Slots |-> None]
    /\ created_tethers' = << >>
    /\ stepped' = FALSE
    /\ UNCHANGED <<current_mode, count_x, count_y, scan_i, pc>>

\* Space is pressed: main.rs 171-176, 772-774.
SwitchModes ==
    /\ pc = "idle"
    /\ current_mode' = IF current_mode = "Create" THEN "Sim" ELSE "Create"
    /\ UNCHANGED <<count_x, count_y, hex_points, hex_particles_indices,
                   created_tethers, scan_i, pc, particles, tethers, stepped>>

\* Tether::update's choice of its two particles (main.rs 706-716) fails:
\* equal indices panic, and an index outside the slice panics in
\* split_at_mut or in the indexing.
TetherUpdatePanics(tether, particle_arr) ==
    \/ tether.p1_index = tether.p2_index
    \/ tether.p1_index >= Len(particle_arr)
    \/ tether.p2_index >= Len(particle_arr)

\* A frame in sim mode: update_physics (main.rs 744-752) over the mesh the
\* builder left. Only what the step does to the structure is kept here: the
\* numbers are those of PhysSpec.
UpdatePhysicsOnMesh ==
    /\ pc = "idle"
    /\ current_mode = "Sim"
    /\ IF \E n \in 1 .. Len(tethers) : TetherUpdatePanics(tethers[n], particles)
         THEN pc' = "tether_panic"
         ELSE pc' = pc
    /\ stepped' = TRUE
    /\ UNCHANGED <<current_mode, count_x, count_y, hex_points,
                   hex_particles_indices, created_tethers, scan_i, particles,
                   tethers>>

\* The window is created with a fixed size (main.rs 17-25, 758): the grid
\* size is drawn once.
Init ==
    /\ FillIdle
    /\ PhysIdle
    /\ current_mode = "Create"
    /\ \E cc \in GridSizes : count_x = cc[1] /\ count_y = cc[2]
    /\ hex_points = [s \in Slots |-> None]
    /\ hex_particles_indices = [s \in Slots |-> None]
    /\ created_tethers = << >>
    /\ scan_i = 0
    /\ pc = "idle"
    /\ particles = << >>
    /\ tethers = << >>
    /\ stepped = FALSE

Next ==
    \/ \E sampled \in [Slots -> {Transparent, DRAW_COLOR}] :
           ComputeLattice(sampled) /\ UNCHANGED <<fill_vars, phys_vars>>
    \/ PlaceHex /\ UNCHANGED <<fill_vars, phys_vars>>
    \/ TetherHex /\ UNCHANGED <<fill_vars, phys_vars>>
    \/ ClearRequest /\ UNCHANGED <<fill_vars, phys_vars>>
    \/ SwitchModes /\ UNCHANGED <<fill_vars, phys_vars>>
    \/ UpdatePhysicsOnMesh /\ UNCHANGED <<fill_vars, phys_vars>>

Spec == Init /\ [][Next]_vars

\* ------------------------------------------------------------------------
\* Claims about create_particle_lattice (checked under Spec)
\* ------------------------------------------------------------------------

\* The placed hexagons.
Placed == { s \in Slots : hex_points[s] # None }

\* create_particle_lattice has returned on a bitmap with a painted centre,
\* and the mesh is the one it built.
Built == pc = "idle" /\ Placed # {}

\* The unordered pair of endpoints of a tether.
Ends(tether) == {tether.p1_index, tether.p2_index}

\* The canonical position of vertex slot k of a hexagon centred at c: top-left,
\* top-right, mid-right, bottom-right, bottom-left, mid-left.
Vertex(c, k) ==
    CASE k = 0 -> <<c[1] - 1, c[2] - 1>>
      [] k = 1 -> <<c[1] + 1, c[2] - 1>>
      [] k = 2 -> <<c[1] + 2, c[2]>>
      [] k = 3 -> <<c[1] + 1, c[2] + 1>>
      [] k = 4 -> <<c[1] - 1, c[2] + 1>>
      [] k = 5 -> <<c[1] - 2, c[2]>>

\* Hexagon b lies geometrically at offset d from hexagon a.
At(a, b, d) ==
    /\ hex_points[b][1] = hex_points[a][1] + d[1]
    /\ hex_points[b][2] = hex_points[a][2] + d[2]

\* C3 (as claimed): after a build no two tethers join the same unordered
\* pair of particles.
C3_NoDuplicateTether ==
    Built =>
        \A m, n \in 1 .. Len(tethers) :
            (m # n) => (Ends(tethers[m]) # Ends(tethers[n]))

\* C4 (as claimed): after a build each of the six boundary edges of every
\* placed hexagon, the closing pair 5-0 included, is a tether.
C4_SixEdgesPerHexagon ==
    Built =>
        \A s \in Placed : \A k \in 0 .. 5 :
            \E n \in 1 .. Len(tethers) :
                Ends(tethers[n]) = {hex_particles_indices[s][k],
                                    hex_particles_indices[s][(k + 1) % 6]}

\* C5 (as claimed): after a build two placed hexagons that border each other
\* hold the same particle index at each of their two common corners.
C5_SharedCornersAreOneParticle ==
    Built =>
        \A a, b \in Placed :
            LET ia == hex_particles_indices[a]
                ib == hex_particles_indices[b]
            IN /\ At(a, b, <<0, -2>>) => (ia[0] = ib[4] /\ ia[1] = ib[3])
               /\ At(a, b, <<-3, -1>>) => (ia[0] = ib[2] /\ ia[5] = ib[3])
               /\ At(a, b, <<3, -1>>) => (ia[1] = ib[5] /\ ia[2] = ib[4])

\* C7: every tether joins two distinct particles of the collection, at every
\* moment of every run of builds, clears, mode switches and steps, and
\* Tether::update never panics.
C7_TetherEndsDistinctAndInRange ==
    /\ pc # "tether_panic"
    /\ \A n \in 1 .. Len(tethers) :
           /\ tethers[n].p1_index # tethers[n].p2_index
           /\ tethers[n].p1_index \in 0 .. Len(particles) - 1
           /\ tethers[n].p2_index \in 0 .. Len(particles) - 1

\* C7 witness: a mesh of two hexagons that share an edge has been built and
\* stepped.
C7_Witness ==
    /\ Built
    /\ stepped
    /\ Len(tethers) >= 6
    /\ \E a, b \in Placed : At(a, b, <<0, -2>>)

\* C10 (as claimed): after a build every slot of every placed hexagon refers
\* to a particle at that slot's canonical vertex position, and every tether's
\* rest length is hex_radius.
C10_SlotsAtCanonicalPositions ==
    Built =>
        /\ \A s \in Placed : \A k \in 0 .. 5 :
               particles[hex_particles_indices[s][k] + 1].position =
                   Vertex(hex_points[s], k)
        /\ \A n \in 1 .. Len(tethers) : tethers[n].initial_dist_sq = 4

\* The neighbour indices whose records the particle scan reads at hexagon i
\* (main.rs 566-583): those of the top-left, top and top-right neighbours
\* that hold a hexagon.
NeighboursRead(i) ==
    { n \in {left_hex_index(i), top_hex_index(i), right_hex_index(i)} :
          is_hex(n) }

\* C11 (as claimed): for every grid size with count_x >= 1 and count_y >= 1
\* and every painted pattern, each neighbour whose record the particle scan
\* is about to read has a strictly smaller index than the current hexagon
\* and its record is already filled, and the build never aborts on an unset
\* record.
C11_NeighbourRecordsAlreadyFilled ==
    /\ pc # "unwrap_panic"
    /\ (pc = "place" /\ hex_points[scan_i] # None) =>
           \A n \in NeighboursRead(scan_i) :
               n < scan_i /\ hex_particles_indices[n] # None

\* C12 (as claimed): during tether creation, after each hexagon has been
\* processed, the deduplication window created_tethers holds at most
\* 2 * count_x entries, for every bitmap and every number of placed hexagons.
C12_WindowAtMostTwoRows ==
    Len(created_tethers) <= 2 * count_x

\* ------------------------------------------------------------------------
\* f32 arithmetic, exact: a number is a fraction [n, d] in lowest terms with
\* d > 0. The result of a division by zero, and of normalizing the zero
\* vector, is NonFinite (f32's infinities and NaN), which every operation
\* hands on.
\* ------------------------------------------------------------------------

Abs(x) == IF x < 0 THEN -x ELSE x

RECURSIVE Gcd(_, _)
Gcd(a, b) == IF b = 0 THEN a ELSE Gcd(b, a % b)

NonFinite == [n |-> 0, d |-> 0]

IsFinite(a) == a.d # 0

\* n / d in lowest terms.
Frac(n, d) ==
    IF d = 0
      THEN NonFinite
      ELSE LET g == Gcd(Abs(n), Abs(d))
               sgn == IF d < 0 THEN -1 ELSE 1
           IN [n |-> sgn * (n \div g), d |-> sgn * (d \div g)]

Num(i) == [n |-> i, d |-> 1]

FAdd(a, b) ==
    IF ~IsFinite(a) \/ ~IsFinite(b)
      THEN NonFinite
      ELSE LET g == Gcd(a.d, b.d)
           IN Frac(a.n * (b.d \div g) + b.n * (a.d \div g), (a.d \div g) * b.d)

FNeg(a) == IF IsFinite(a) THEN [n |-> -a.n, d |-> a.d] ELSE NonFinite

FSub(a, b) == FAdd(a, FNeg(b))

FMul(a, b) ==
    IF ~IsFinite(a) \/ ~IsFinite(b)
      THEN NonFinite
      ELSE LET g1 == Gcd(Abs(a.n), b.d)
               g2 == Gcd(Abs(b.n), a.d)
           IN Frac((a.n \div g1) * (b.n \div g2), (a.d \div g2) * (b.d \div g1))

FDiv(a, b) ==
    IF ~IsFinite(a) \/ ~IsFinite(b) \/ b.n = 0
      THEN NonFinite
      ELSE FMul(a, IF b.n < 0 THEN [n |-> -b.d, d |-> -b.n]
                              ELSE [n |-> b.d, d |-> b.n])

\* -1, 0 or 1 for a finite number.
Sign(a) == IF a.n > 0 THEN 1 ELSE IF a.n < 0 THEN -1 ELSE 0

\* Vec2::length of a vector on the x axis.
Length(a) == IF IsFinite(a) THEN [n |-> Abs(a.n), d |-> a.d] ELSE NonFinite

\* Vec2::normalize of a vector on the x axis: the zero vector has no direction.
Normalize(a) ==
    IF ~IsFinite(a) \/ a.n = 0 THEN NonFinite ELSE Num(Sign(a))

\* ------------------------------------------------------------------------
\* Physics: Particle, Tether, apply_force_from_point, update_physics
\* (main.rs 384-423, 639-752).
\*
\* PhysSpec follows one frame of handle_sim_logic on a mesh of two particles
\* joined by one tether. The particles and the pointer lie on the x axis, so
\* every Vec2 has a zero y component and is kept as its x component.
\* ------------------------------------------------------------------------

\* Particle::apply_force: main.rs 660-662.
apply_force(particle, force) ==
    [particle EXCEPT !.net_force = FAdd(particle.net_force, force)]

\* Particle::update: main.rs 664-671.
ParticleUpdate(particle, frame_time) ==
    LET acceleration == FDiv(particle.net_force, particle.mass)
        velocity == FAdd(particle.velocity, FMul(acceleration, frame_time))
        position == FAdd(particle.position, FMul(velocity, frame_time))
    IN [particle EXCEPT !.acceleration = acceleration,
                        !.velocity = velocity,
                        !.position = position,
                        !.net_force = Num(0)]

\* The force one call of apply_force_from_point adds to a particle:
\* main.rs 419-421.
PointForce(particle, point, strength) ==
    LET distance == Length(FSub(particle.position, point))
        direction == Normalize(FSub(particle.position, point))
    IN FDiv(FMul(strength, direction), FMul(distance, distance))

\* apply_force_from_point: main.rs 413-423.
apply_force_from_point(particle_arr, point, strength) ==
    [n \in 1 .. Len(particle_arr) |->
        apply_force(particle_arr[n], PointForce(particle_arr[n], point, strength))]

\* The scalar f of Tether::update: main.rs 718-723.
TetherForce(tether, pos1, pos2) ==
    LET dist == Length(FSub(pos2, pos1))
        ddx == FSub(dist, tether.initial_dist)
        a == tether.initial_dist
        sum == FAdd(ddx, a)
    IN FAdd(FSub(FMul(FNeg(tether.k), ddx),
                 FDiv(FMul(Num(10), FAdd(FSub(FMul(a, ddx), ddx), a)),
                      FMul(sum, sum))),
            FDiv(Num(10), a))

\* Tether::update on a collection it can index: main.rs 705-728. The operand
\* order of a * dx + a - dx is immaterial in exact arithmetic.
TetherUpdate(tether, particle_arr) ==
    LET p1 == particle_arr[tether.p1_index + 1]
        p2 == particle_arr[tether.p2_index + 1]
        tether_direction == Normalize(FSub(p2.position, p1.position))
        f == TetherForce(tether, p1.position, p2.position)
        force1 == FMul(FAdd(f, FMul(p1.velocity, tether.damping_constant)),
                       FNeg(tether_direction))
        force2 == FMul(FAdd(f, FMul(p2.velocity, tether.damping_constant)),
                       tether_direction)
    IN [particle_arr EXCEPT ![tether.p1_index + 1] = apply_force(p1, force1),
                            ![tether.p2_index + 1] = apply_force(p2, force2)]

\* The strength factor of the force tool: main.rs 399, 406.
ForceFactor == 10000

\* handle_sim_logic, the left button: main.rs 395-401.
LeftButton ==
    /\ phys_pc = "left"
    /\ prev_particles' = particles
    /\ particles' =
           IF left_down
             THEN apply_force_from_point(particles, Num(mouse_x),
                                         Num(ForceFactor * force_radius))
             ELSE particles
    /\ phys_pc' = "right"
    /\ UNCHANGED <<tethers, mouse_x, left_down, right_down, force_radius, dt,
                   integrated, accumulated>>

\* handle_sim_logic, the right button: main.rs 402-408.
RightButton ==
    /\ phys_pc = "right"
    /\ prev_particles' = particles
    /\ particles' =
           IF right_down
             THEN apply_force_from_point(particles, Num(mouse_x),
                                         Num(-ForceFactor * force_radius))
             ELSE particles
    /\ phys_pc' = "particles"
    /\ UNCHANGED <<tethers, mouse_x, left_down, right_down, force_radius, dt,
                   integrated, accumulated>>

\* update_physics, its first for_each: main.rs 745-748.
UpdateParticles ==
    /\ phys_pc = "particles"
    /\ prev_particles' = particles
    /\ particles' = [n \in 1 .. Len(particles) |-> ParticleUpdate(particles[n], dt)]
    /\ integrated' = Len(particles)
    /\ phys_pc' = "tethers"
    /\ UNCHANGED <<tethers, mouse_x, left_down, right_down, force_radius, dt,
                   accumulated>>

\* The tethers from number n on are updated in turn.
RECURSIVE UpdateTethersFrom(_, _, _)
UpdateTethersFrom(n, tether_arr, particle_arr) ==
    IF n > Len(tether_arr)
      THEN particle_arr
      ELSE UpdateTethersFrom(n + 1, tether_arr,
                             TetherUpdate(tether_arr[n], particle_arr))

\* update_physics, its second for_each: main.rs 749-751.
UpdateTethers ==
    /\ phys_pc = "tethers"
    /\ prev_particles' = particles
    /\ IF \E n \in 1 .. Len(tethers) : TetherUpdatePanics(tethers[n], particles)
         THEN /\ phys_pc' = "tether_panic"
              /\ UNCHANGED <<particles, accumulated>>
         ELSE /\ particles' = UpdateTethersFrom(1, tethers, particles)
              /\ accumulated' = Len(tethers)
              /\ phys_pc' = "done"
    /\ UNCHANGED <<tethers, mouse_x, left_down, right_down, force_radius, dt,
                   integrated>>

\* The frame times drawn: 10 ms.
FrameTimes == { Frac(1, 100) }

\* The velocities and the net forces left by earlier frames that are drawn.
Velocities == {-100, 0, 100}
LeftOverForces == {0, 10000}

\* A particle on the x axis.
ParticleAt(position, velocity, net_force) ==
    [position |-> Num(position), velocity |-> Num(velocity),
     acceleration |-> Num(0), mass |-> Num(1), net_force |-> Num(net_force)]

\* A frame of handle_sim_logic begins (main.rs 384-392) on a two-particle
\* mesh between two frames: positions, velocities, the forces the last frame
\* left, the tether and the frame's inputs are drawn from small sets.
PhysInit ==
    /\ FillIdle
    /\ current_mode = "Sim"
    /\ count_x = 1
    /\ count_y = 1
    /\ hex_points = [s \in 0 .. 0 |-> None]
    /\ hex_particles_indices = [s \in 0 .. 0 |-> None]
    /\ created_tethers = << >>
    /\ scan_i = 0
    /\ pc = "idle"
    /\ stepped = FALSE
    /\ particles \in
           { << ParticleAt(x1, v1, nf), ParticleAt(x2, v2, -nf) >> :
               <<x1, x2>> \in (0 .. MaxPos) \X (0 .. MaxPos),
               <<v1, v2>> \in Velocities \X Velocities,
               nf \in LeftOverForces }
    /\ tethers \in
           { << [p1_index |-> ends[1], p2_index |-> ends[2], k |-> Num(k),
                 damping_constant |-> Num(c), initial_dist |-> Num(len)] >> :
               ends \in { <<0, 1>>, <<1, 0>> },
               k \in 1 .. MaxStiffness,
               c \in {0, 1},
               len \in 1 .. MaxRestLength }
    /\ phys_pc = "left"
    /\ mouse_x \in 0 .. MaxPos
    /\ left_down \in BOOLEAN
    /\ right_down \in BOOLEAN
    /\ force_radius \in 1 .. MaxForceRadius
    /\ dt \in FrameTimes
    /\ prev_particles = particles
    /\ integrated = 0
    /\ accumulated = 0

PhysNext ==
    \/ LeftButton /\ UNCHANGED <<fill_vars, current_mode, count_x, count_y,
                                hex_points, hex_particles_indices,
                                created_tethers, scan_i, pc, stepped>>
    \/ RightButton /\ UNCHANGED <<fill_vars, current_mode, count_x, count_y,
                                 hex_points, hex_particles_indices,
                                 created_tethers, scan_i, pc, stepped>>
    \/ UpdateParticles /\ UNCHANGED <<fill_vars, current_mode, count_x, count_y,
                                     hex_points, hex_particles_indices,
                                     created_tethers, scan_i, pc, stepped>>
    \/ UpdateTethers /\ UNCHANGED <<fill_vars, current_mode, count_x, count_y,
                                   hex_points, hex_particles_indices,
                                   created_tethers, scan_i, pc, stepped>>

PhysSpec == PhysInit /\ [][PhysNext]_vars

\* ------------------------------------------------------------------------
\* Claims about the physics step (checked under PhysSpec)
\* ------------------------------------------------------------------------

\* a < b, for finite numbers.
Less(a, b) == Sign(FSub(b, a)) = 1

\* The force the last step taken added to particle n.
ForceAdded(n) == FSub(particles[n].net_force, prev_particles[n].net_force)

\* C6 (as claimed): within update_physics, once any particle has been
\* integrated every tether's force has already been accumulated.
C6_AccumulateBeforeIntegrate ==
    (integrated > 0) => (accumulated = Len(tethers))

\* C8 (as claimed): with zero damping, a tether longer than its rest length
\* pushes each of its particles toward the other, and a tether shorter than
\* its rest length (and not of length zero) pushes each away from the other.
C8_TetherForceIsRestoring ==
    (phys_pc = "done" /\ tethers[1].damping_constant = Num(0)) =>
        LET n1 == tethers[1].p1_index + 1
            n2 == tethers[1].p2_index + 1
            from1to2 == FSub(particles[n2].position, particles[n1].position)
            dist == Length(from1to2)
            len == tethers[1].initial_dist
        IN IsFinite(dist) =>
             /\ Less(len, dist) =>
                    /\ Sign(ForceAdded(n1)) = Sign(from1to2)
                    /\ Sign(ForceAdded(n2)) = -Sign(from1to2)
             /\ (Less(Num(0), dist) /\ Less(dist, len)) =>
                    /\ Sign(ForceAdded(n1)) = -Sign(from1to2)
                    /\ Sign(ForceAdded(n2)) = Sign(from1to2)

\* C9 (as claimed): the left button's call, with strength > 0, adds to every
\* particle not at the point a force toward the point, and the right
\* button's call, with strength < 0, a force away from the point.
C9_PositiveAttractsNegativeRepels ==
    /\ (phys_pc = "right" /\ left_down) =>
           \A n \in 1 .. Len(particles) :
               (particles[n].position # Num(mouse_x)) =>
                   Sign(ForceAdded(n)) =
                       Sign(FSub(Num(mouse_x), particles[n].position))
    /\ (phys_pc = "particles" /\ right_down) =>
           \A n \in 1 .. Len(particles) :
               (particles[n].position # Num(mouse_x)) =>
                   Sign(ForceAdded(n)) =
                       Sign(FSub(particles[n].position, Num(mouse_x)))

\* C13 (as claimed): after every completed update_physics, on a mesh with
\* tethers too, every particle's net_force is zero, so that nothing computed
\* in one step is left for the integration of a later step.
C13_NetForceZeroAfterStep ==
    (phys_pc = "done") =>
        \A n \in 1 .. Len(particles) : particles[n].net_force = Num(0)

=============================================================================
